---------------------------- MODULE Spec2Model ----------------------------
(***************************************************************************)
(* TrackOptimiser (btrack/optimise/optimiser.py): the hypothesis pool is   *)
(* encoded as a sparse 0/1 constraint matrix A of shape (2N, n) and a      *)
(* score vector rho, handed to a binary integer program                    *)
(*     minimize (-rho)'x  subject to  A x = 1,  x binary                   *)
(* and the indices j with x[j] > 0 are returned when the solver reports    *)
(* 'optimal'; otherwise a warning is logged and [] is returned.            *)
(*                                                                         *)
(* Log-likelihoods are integers in tenths (ll = -0.1 is -1, ll = -2 is     *)
(* -20).  Rows and columns are 0-based as in the source.                   *)
(***************************************************************************)
EXTENDS Integers, Sequences, FiniteSets

VARIABLES
    hypotheses,  \* self._hypotheses: the pool, in the caller's order
    pc,          \* new, ready (pool set), built, solved, done
    counter,     \* the build loop's column index (0-based) when the loop ended
    N,           \* max hypothesis ID
    A,           \* the constraint matrix: [size |-> <<rows, cols>>, nz |-> {<<r, c>>}]
    rho,         \* rho[j+1] = score of column j
    b,           \* right-hand side handed to the solver
    status,      \* the solver's status string
    x,           \* the solver's solution vector, x[j+1] in {0, 1}
    results,     \* the list optimise() returns
    raised,      \* "none", or the exception that left optimise()
    warnings,    \* number of logger.warning calls
    ilp_calls    \* number of solver invocations

vars == <<hypotheses, pc, counter, N, A, rho, b, status, x, results, raised,
          warnings, ilp_calls>>

-----------------------------------------------------------------------------
(* Bounds of the input space *)

MaxID == 2
MaxLen == 2

\* scores, in tenths: of the general pools, of the single-tracklet pools
\* and of the scenario pools (-2 is -20, -0.1 is -1)
LLs == {0}
ScoredLLs == {-1, 0}
ScenarioLLs == {-20, -1, 0}

-----------------------------------------------------------------------------
(* Fates and hypothesis records *)

KnownFates == {"FALSE_POSITIVE", "INITIALIZE", "TERMINATE", "APOPTOSIS",
               "LINK", "DIVIDE", "MERGE"}

\* a type code none of the branches of the build loop matches
UnknownFate == "UNDEFINED"

\* a PyHypothesis, with the fields optimise() reads for its type
FalsePositive(i, ll) == [type |-> "FALSE_POSITIVE", ID |-> i, log_likelihood |-> ll]
Initialize(i, ll)    == [type |-> "INITIALIZE", ID |-> i, log_likelihood |-> ll]
Terminate(i, ll)     == [type |-> "TERMINATE", ID |-> i, log_likelihood |-> ll]
Apoptosis(i, ll)     == [type |-> "APOPTOSIS", ID |-> i, log_likelihood |-> ll]
Link(i, j, ll) ==
    [type |-> "LINK", ID |-> i, log_likelihood |-> ll, link_ID |-> j]
Divide(i, c1, c2, ll) ==
    [type |-> "DIVIDE", ID |-> i, log_likelihood |-> ll,
     child_one_ID |-> c1, child_two_ID |-> c2]
Merge(i, p1, p2, ll) ==
    [type |-> "MERGE", ID |-> i, log_likelihood |-> ll,
     parent_one_ID |-> p1, parent_two_ID |-> p2]
Unknown(i, ll)       == [type |-> UnknownFate, ID |-> i, log_likelihood |-> ll]

\* every hypothesis over tracklet IDs 1..m with scores in L
HypothesesOver(m, L) ==
    LET I == 1..m IN
    UNION { {FalsePositive(i, ll), Initialize(i, ll), Terminate(i, ll),
             Apoptosis(i, ll), Unknown(i, ll)}
            \cup {Link(i, j, ll) : j \in I}
            \cup {Divide(i, j, k, ll) : j \in I, k \in I}
            \cup {Merge(i, j, k, ll) : j \in I, k \in I}
          : i \in I, ll \in L }

SeqsUpTo(S, len) == UNION {[1..k -> S] : k \in 0..len}

\* every pool of at most MaxLen hypotheses over tracklets 1..MaxID
GeneralPools == SeqsUpTo(HypothesesOver(MaxID, LLs), MaxLen)

\* every pool of at most MaxLen + 1 recognised hypotheses about tracklet 1
\* alone, with competing scores
ScoredPools ==
    SeqsUpTo({h \in HypothesesOver(1, ScoredLLs) : h.type # UnknownFate}, MaxLen + 1)

\* Scenario A: one tracklet, INITIALIZE and TERMINATE, both with score 0
ScenarioA == <<Initialize(1, 0), Terminate(1, 0)>>

\* Scenario B: TERMINATE(1), INITIALIZE(2), LINK(1 -> 2)
ScenarioB(a, c, d) == <<Terminate(1, a), Initialize(2, c), Link(1, 2, d)>>

\* Scenario B with the two remaining boundaries given a hypothesis
ScenarioBClosed(a, c, d) ==
    ScenarioB(a, c, d) \o <<Initialize(1, 0), Terminate(2, 0)>>

\* Scenario C: TERMINATE(1), DIVIDE(1 -> 2, 3), INITIALIZE(2), INITIALIZE(3)
ScenarioC(a, c, d, e) ==
    <<Terminate(1, a), Divide(1, 2, 3, c), Initialize(2, d), Initialize(3, e)>>

\* Scenario C with the three remaining boundaries given a hypothesis
ScenarioCClosed(a, c, d, e) ==
    ScenarioC(a, c, d, e) \o <<Initialize(1, 0), Terminate(2, 0), Terminate(3, 0)>>

ScenarioPools ==
    {ScenarioA}
    \cup {ScenarioB(a, c, d) : a \in ScenarioLLs, c \in ScenarioLLs, d \in ScenarioLLs}
    \cup {ScenarioBClosed(a, c, d) :
             a \in ScenarioLLs, c \in ScenarioLLs, d \in ScenarioLLs}
    \cup {ScenarioC(a, c, d, e) :
             a \in ScenarioLLs, c \in ScenarioLLs, d \in ScenarioLLs, e \in ScenarioLLs}
    \cup {ScenarioCClosed(a, c, d, e) :
             a \in ScenarioLLs, c \in ScenarioLLs, d \in ScenarioLLs, e \in ScenarioLLs}

Pools == GeneralPools \cup ScoredPools \cup ScenarioPools

-----------------------------------------------------------------------------
(* Pure helpers of optimise() *)

\* (a renumbering that forgets the shift from 1-based ids)
trk_idx_unshifted(h) == h

\* trk_idx = lambda h: int(h)-1
trk_idx(h) == h - 1

SetMax(S) == CHOOSE m \in S : \A k \in S : k <= m

\* (the number of distinct ids instead of the largest)
MaxHypothesisID_count(pool) == Cardinality({pool[k].ID : k \in 1..Len(pool)})

\* N = max(set([int(h.ID) for h in self.hypotheses]))
MaxHypothesisID(pool) == SetMax({pool[k].ID : k \in 1..Len(pool)})

\* The rows each branch of the build loop writes in its column, in program
\* order (nTracks is N).

\* (a false positive entered in the first half only)
FalsePositiveRows_tail_only(h, nTracks) == <<trk_idx(h.ID)>>

FalsePositiveRows(h, nTracks) == <<trk_idx(h.ID), nTracks + trk_idx(h.ID)>>

InitializeRows(h, nTracks) == <<nTracks + trk_idx(h.ID)>>

TerminateRows(h, nTracks) == <<trk_idx(h.ID)>>

\* (the write the source keeps commented out, A[N+trk,counter] = 1)
ApoptosisRows_with_head(h, nTracks) == <<trk_idx(h.ID), nTracks + trk_idx(h.ID)>>

ApoptosisRows(h, nTracks) == <<trk_idx(h.ID)>>

\* (source and target exchanged)
LinkRows_swapped(h, nTracks) == <<trk_idx(h.link_ID), nTracks + trk_idx(h.ID)>>

LinkRows(h, nTracks) == <<trk_idx(h.ID), nTracks + trk_idx(h.link_ID)>>

\* (the second child forgotten)
DivideRows_one_child(h, nTracks) ==
    <<trk_idx(h.ID), nTracks + trk_idx(h.child_one_ID)>>

DivideRows(h, nTracks) ==
    <<trk_idx(h.ID), nTracks + trk_idx(h.child_one_ID),
      nTracks + trk_idx(h.child_two_ID)>>

MergeRows(h, nTracks) ==
    <<nTracks + trk_idx(h.ID), trk_idx(h.parent_one_ID),
      trk_idx(h.parent_two_ID)>>

\* the if/elif chain on h.type; <<>> for a type no branch matches
RowWrites(h, nTracks) ==
    CASE h.type = "FALSE_POSITIVE" -> FalsePositiveRows(h, nTracks)
      [] h.type = "INITIALIZE"     -> InitializeRows(h, nTracks)
      [] h.type = "TERMINATE"      -> TerminateRows(h, nTracks)
      [] h.type = "APOPTOSIS"      -> ApoptosisRows(h, nTracks)
      [] h.type = "LINK"           -> LinkRows(h, nTracks)
      [] h.type = "DIVIDE"         -> DivideRows(h, nTracks)
      [] h.type = "MERGE"          -> MergeRows(h, nTracks)
      [] OTHER                     -> <<>>

\* spmatrix item assignment A[i, j] = 1: an index outside the shape raises IndexError
InRange(M, r, c) == r >= 0 /\ r < M.size[1] /\ c >= 0 /\ c < M.size[2]

SetEntry(M, r, c) == [M EXCEPT !.nz = @ \cup {<<r, c>>}]

RECURSIVE WriteRows(_, _, _)
\* the writes of one branch, stopping at the first index out of range
WriteRows(M, rows, c) ==
    IF rows = <<>> THEN [A |-> M, err |-> "none"]
    ELSE IF ~InRange(M, Head(rows), c) THEN [A |-> M, err |-> "IndexError"]
    ELSE WriteRows(SetEntry(M, Head(rows), c), Tail(rows), c)



\* (an unmatched type passed over in silence)
NoBranch_ignored(h) == FALSE

\* the else branch of the if/elif chain: raise ValueError('Unknown hypothesis')
NoBranch(h) == h.type \notin KnownFates

\* spmatrix([], [], [], (rows, cols), 'd')
spmatrix(rows, cols) == [size |-> <<rows, cols>>, nz |-> {}]

RECURSIVE BuildLoop(_, _, _, _)
\* for counter, h in enumerate(self.hypotheses): the score, then the branch
\* for h.type; an unmatched type raises ValueError, an index outside A
\* raises IndexError, and either leaves the loop at once
BuildLoop(pool, M, r, k) ==
    IF k >= Len(pool) THEN [A |-> M, rho |-> r, counter |-> k, err |-> "none"]
    ELSE LET h == pool[k + 1]
             r1 == [r EXCEPT ![k + 1] = h.log_likelihood]
             w == WriteRows(M, RowWrites(h, M.size[1] \div 2), k)
         IN IF NoBranch(h)
            THEN [A |-> M, rho |-> r1, counter |-> k, err |-> "ValueError"]
            ELSE IF w.err # "none"
            THEN [A |-> w.A, rho |-> r1, counter |-> k, err |-> w.err]
            ELSE BuildLoop(pool, w.A, r1, k + 1)

\* (rho handed over as it is)
Cost_not_negated(r) == r

\* -rho, the cost vector handed to the solver (a minimisation)
Cost(r) == [j \in DOMAIN r |-> 0 - r[j]]

RECURSIVE SumOver(_, _)
SumOver(f, S) ==
    IF S = {} THEN 0
    ELSE LET j == CHOOSE k \in S : TRUE IN f[j + 1] + SumOver(f, S \ {j})

\* (A x)[r] for the binary vector x with support S
RowSum(M, S, r) == Cardinality({j \in S : <<r, j>> \in M.nz})

\* the supports of the binary x with A x = b
FeasibleSets(M, rhs) ==
    {S \in SUBSET (0..(M.size[2] - 1)) :
        \A r \in 0..(M.size[1] - 1) : RowSum(M, S, r) = rhs[r + 1]}

OptimalSets(c, F) == {S \in F : \A T \in F : SumOver(c, S) <= SumOver(c, T)}

NonOptimalStatus == {"LP relaxation is primal infeasible", "infeasible problem"}

\* status, x = ilp(c, G, h, A, b, I, B) with G = 0, h = 0, I = {}, B = all:
\*   minimize c'x subject to A x = b, x binary.
\* Every outcome the solver may report: an optimal vertex when one exists,
\* otherwise a non-optimal status and no solution.
ilp(c, M, rhs) ==
    LET F == FeasibleSets(M, rhs) IN
    IF F # {}
    THEN {[status |-> "optimal",
           x |-> [j \in 1..M.size[2] |-> IF (j - 1) \in S THEN 1 ELSE 0]] :
          S \in OptimalSets(c, F)}
    ELSE {[status |-> s, x |-> <<>>] : s \in NonOptimalStatus}

\* (x[i] >= 0)
IsSelected_nonnegative(v) == v >= 0

\* [i for i,h in enumerate(self.hypotheses) if x[i]>0]: the test
IsSelected(v) == v > 0

RECURSIVE Selected(_, _)
\* ... and the list of the indices that pass it, in order
Selected(xs, i) ==
    IF i >= Len(xs) THEN <<>>
    ELSE (IF IsSelected(xs[i + 1]) THEN <<i>> ELSE <<>>) \o Selected(xs, i + 1)

\* (only one of the solver's failure statuses tested for)
NotOptimal_infeasible_only(s) == s = "infeasible problem"

\* if status != 'optimal'
NotOptimal(s) == s # "optimal"

-----------------------------------------------------------------------------
(* State machine *)

\* __init__: self._hypotheses = []
Init ==
    /\ hypotheses = <<>>
    /\ pc = "new"
    /\ counter = 0
    /\ N = 0
    /\ A = spmatrix(0, 0)
    /\ rho = <<>>
    /\ b = <<>>
    /\ status = "none"
    /\ x = <<>>
    /\ results = <<>>
    /\ raised = "none"
    /\ warnings = 0
    /\ ilp_calls = 0

\* hypotheses.setter
SetHypotheses ==
    /\ pc = "new"
    /\ \E pool \in Pools : hypotheses' = pool
    /\ pc' = "ready"
    /\ UNCHANGED <<counter, N, A, rho, b, status, x, results, raised,
                   warnings, ilp_calls>>

\* optimise(), lines 109-186: N, the empty A and rho, then the build loop.
\* max() of an empty pool raises ValueError before anything is allocated.
Build ==
    /\ pc \in {"new", "ready"}
    /\ IF Len(hypotheses) = 0
       THEN /\ raised' = "ValueError"
            /\ pc' = "done"
            /\ UNCHANGED <<N, A, rho, counter>>
       ELSE \E nTracks \in {MaxHypothesisID(hypotheses)} :
            \E out \in {BuildLoop(hypotheses,
                                  spmatrix(2 * nTracks, Len(hypotheses)),
                                  [j \in 1..Len(hypotheses) |-> 0], 0)} :
               /\ N' = nTracks
               /\ A' = out.A
               /\ rho' = out.rho
               /\ counter' = out.counter
               /\ raised' = out.err
               /\ pc' = IF out.err = "none" THEN "built" ELSE "done"
    /\ UNCHANGED <<hypotheses, b, status, x, results, warnings, ilp_calls>>

\* the loop is over: set up and call the solver
Solve ==
    /\ pc = "built"
    /\ b' = [r \in 1..(2 * N) |-> 1]
    /\ \E out \in ilp(Cost(rho), A, b') :
          /\ status' = out.status
          /\ x' = out.x
    /\ ilp_calls' = ilp_calls + 1
    /\ pc' = "solved"
    /\ UNCHANGED <<hypotheses, counter, N, A, rho, results, raised, warnings>>

\* log the warning and return [], or return the selected indices
Return ==
    /\ pc = "solved"
    /\ IF NotOptimal(status)
       THEN /\ warnings' = warnings + 1
            /\ results' = <<>>
       ELSE /\ results' = Selected(x, 0)
            /\ UNCHANGED warnings
    /\ pc' = "done"
    /\ UNCHANGED <<hypotheses, counter, N, A, rho, b, status, x, raised,
                   ilp_calls>>

Next == SetHypotheses \/ Build \/ Solve \/ Return

Spec == Init /\ [][Next]_vars

-----------------------------------------------------------------------------
(* Vocabulary of the properties: the encoding table of the design (rows    *)
(* 0..N-1 are tail slots, rows N..2N-1 are head slots, N = max id),        *)
(* stated on the pool alone.  nT stands for N and pt for the table of the  *)
(* pool's columns; a formula binds each once, as the only member of a      *)
(* singleton.                                                              *)

NumHyps == Len(hypotheses)
Columns == 0..(NumHyps - 1)
HypAt(j) == hypotheses[j + 1]

\* N as the design defines it: the largest subject id of the pool
TrackletCount == SetMax({hypotheses[k].ID : k \in 1..NumHyps})

TailRow(i) == i - 1
HeadRow(nT, i) == nT + i - 1

TablePattern(h, nT) ==
    CASE h.type = "FALSE_POSITIVE" -> {TailRow(h.ID), HeadRow(nT, h.ID)}
      [] h.type = "INITIALIZE"     -> {HeadRow(nT, h.ID)}
      [] h.type = "TERMINATE"      -> {TailRow(h.ID)}
      [] h.type = "APOPTOSIS"      -> {TailRow(h.ID)}
      [] h.type = "LINK"           -> {TailRow(h.ID), HeadRow(nT, h.link_ID)}
      [] h.type = "DIVIDE"         -> {TailRow(h.ID), HeadRow(nT, h.child_one_ID),
                                       HeadRow(nT, h.child_two_ID)}
      [] h.type = "MERGE"          -> {HeadRow(nT, h.ID), TailRow(h.parent_one_ID),
                                       TailRow(h.parent_two_ID)}
      [] OTHER                     -> {}

\* pt[j] = the rows the table gives column j
PatternTable(nT) == [j \in Columns |-> TablePattern(HypAt(j), nT)]

AllRecognised == \A j \in Columns : HypAt(j).type \in KnownFates

\* column j names a row at or beyond 2N: a link or child reference beyond N,
\* or a merge parent beyond 2N (a merge parent in N+1..2N names a head row)
OutsideMatrix(pt, nT, j) == \E r \in pt[j] : r >= 2 * nT
AllRowsInMatrix(pt, nT) == \A j \in Columns : ~OutsideMatrix(pt, nT, j)

\* the rows of A that hold a 1 in column j
ColumnOf(j) == {e[1] : e \in {f \in A.nz : f[2] = j}}

\* how many entries of the returned list have a 1 in row r
ResultCover(pt, r) == Cardinality({k \in 1..Len(results) : r \in pt[results[k]]})

\* how many members of the column set S have a 1 in row r
SetCover(pt, S, r) == Cardinality({j \in S : r \in pt[j]})

IsExactCover(pt, nT, S) ==
    \A i \in 1..nT :
        SetCover(pt, S, TailRow(i)) = 1 /\ SetCover(pt, S, HeadRow(nT, i)) = 1

ResultIsExactCover(pt, nT) ==
    \A i \in 1..nT :
        ResultCover(pt, TailRow(i)) = 1 /\ ResultCover(pt, HeadRow(nT, i)) = 1

Scores == [k \in 1..NumHyps |-> hypotheses[k].log_likelihood]
TotalLL(S) == SumOver(Scores, S)

ResultSet == {results[k] : k \in 1..Len(results)}

Done == pc = "done"
ReturnedOptimal == pc = "done" /\ raised = "none" /\ status = "optimal"

-----------------------------------------------------------------------------
(* C1 *)

\* C1: whenever optimise() returns after the solver reported 'optimal', every
\* tail row i-1 and every head row N+i-1, i in 1..N, has a 1 in exactly one
\* accepted hypothesis.
C1_ExactCover ==
    ReturnedOptimal =>
        \A nT \in {TrackletCount} :
            \A pt \in {PatternTable(nT)} : ResultIsExactCover(pt, nT)

\* an optimal return over two tracklets that leaves some hypotheses out
C1_Witness ==
    /\ ReturnedOptimal
    /\ TrackletCount >= 2
    /\ Len(results) >= 2
    /\ Len(results) < NumHyps

-----------------------------------------------------------------------------
(* C2 *)

\* C2: when the status is 'optimal' the returned selection is an exact cover
\* and no exact-cover subset of the pool has a strictly larger total
\* log-likelihood (brute force over all subsets).
C2_MaximumLikelihood ==
    ReturnedOptimal =>
        \A nT \in {TrackletCount} :
        \A pt \in {PatternTable(nT)} :
        \A sc \in {Scores} :
        \A best \in {SumOver(sc, ResultSet)} :
            /\ IsExactCover(pt, nT, ResultSet)
            /\ \A S \in SUBSET Columns :
                  IsExactCover(pt, nT, S) => SumOver(sc, S) <= best

\* an optimal return where another exact cover exists and is strictly worse
C2_Witness ==
    /\ ReturnedOptimal
    /\ \E nT \in {TrackletCount} :
       \E pt \in {PatternTable(nT)} :
       \E S \in SUBSET Columns :
          IsExactCover(pt, nT, S) /\ TotalLL(S) < TotalLL(ResultSet)

-----------------------------------------------------------------------------
(* C3 *)

BuilderOutputMatchesTable(pt, nT) ==
    /\ raised = "none"
    /\ N = nT
    /\ A.size = <<2 * nT, NumHyps>>
    /\ \A j \in Columns : ColumnOf(j) = pt[j]
    /\ \A e \in A.nz : e[2] \in Columns
    /\ b = [r \in 1..(2 * nT) |-> 1]

\* C3 as stated: for every pool of recognised hypotheses with N >= 1 the
\* builder produces A of shape (2N, n) with the columns of the table and
\* b all ones.
C3_Original ==
    (Done /\ NumHyps >= 1 /\ AllRecognised) =>
        \A nT \in {TrackletCount} :
            \A pt \in {PatternTable(nT)} : BuilderOutputMatchesTable(pt, nT)

\* C3 amended: the same for every such pool in which every row the table
\* names lies inside the matrix (link and child references at most N, merge
\* parents at most 2N); when a named row is 2N or beyond, the builder raises
\* IndexError instead and nothing reaches the solver.
C3_ColumnsMatchTable ==
    (Done /\ NumHyps >= 1 /\ AllRecognised) =>
        \A nT \in {TrackletCount} :
        \A pt \in {PatternTable(nT)} :
            IF AllRowsInMatrix(pt, nT)
            THEN BuilderOutputMatchesTable(pt, nT)
            ELSE raised = "IndexError" /\ ilp_calls = 0

\* a built matrix over two tracklets with a three-entry MERGE column
C3_Witness ==
    /\ Done /\ NumHyps >= 1 /\ AllRecognised
    /\ \E nT \in {TrackletCount} :
       \E pt \in {PatternTable(nT)} :
          AllRowsInMatrix(pt, nT) /\ BuilderOutputMatchesTable(pt, nT)
    /\ \E j \in Columns :
          HypAt(j).type = "MERGE" /\ Cardinality(ColumnOf(j)) = 3

-----------------------------------------------------------------------------
(* C4 *)

\* the binary solutions of A x = 1, by brute force on the matrix built
HasBinarySolution ==
    \E S \in SUBSET (0..(A.size[2] - 1)) :
        \A r \in 0..(A.size[1] - 1) :
            Cardinality({j \in S : <<r, j>> \in A.nz}) = 1

\* C4: when A x = 1 has no binary solution, or the solver reports a status
\* other than 'optimal', optimise() returns [], raises nothing and logs
\* exactly one warning; a selection it returns is never non-covering.
C4_NonOptimalReturnsEmpty ==
    /\ (Done /\ ilp_calls = 1 /\ (status # "optimal" \/ ~HasBinarySolution)) =>
          (results = <<>> /\ raised = "none" /\ warnings = 1)
    /\ (Done /\ raised = "none" /\ results # <<>>) =>
          \A nT \in {TrackletCount} :
              \A pt \in {PatternTable(nT)} : ResultIsExactCover(pt, nT)

\* an over-constrained system: every row has a 1 somewhere, yet no solution
C4_Witness ==
    /\ Done /\ ilp_calls = 1 /\ status # "optimal"
    /\ \A r \in 0..(A.size[1] - 1) : \E j \in Columns : <<r, j>> \in A.nz
    /\ results = <<>> /\ warnings = 1

-----------------------------------------------------------------------------
(* C5 *)

HasUnrecognised == \E j \in Columns : HypAt(j).type \notin KnownFates

FirstUnrecognised ==
    CHOOSE j \in Columns :
        /\ HypAt(j).type \notin KnownFates
        /\ \A k \in 0..(j - 1) : HypAt(k).type \in KnownFates

OutsideMatrixBeforeUnrecognised ==
    \E nT \in {TrackletCount} :
    \E pt \in {PatternTable(nT)} :
    \E k \in 0..(FirstUnrecognised - 1) : OutsideMatrix(pt, nT, k)

\* C5 as stated: a pool with an unrecognised type makes optimise() fail with
\* ValueError, the solver is never invoked and nothing is returned, wherever
\* the offending hypothesis stands.
C5_Original ==
    HasUnrecognised =>
        /\ ilp_calls = 0 /\ results = <<>> /\ status = "none"
        /\ Done => raised = "ValueError"

\* C5 amended: such a pool makes optimise() fail in the build loop, with
\* ValueError unless a hypothesis before the first offending one names a row
\* outside the matrix (a link or child reference beyond N, a merge parent
\* beyond 2N), whose write raises IndexError first; either way the solver is
\* never invoked and nothing is returned.
C5_UnknownTypeFails ==
    HasUnrecognised =>
        /\ ilp_calls = 0 /\ results = <<>> /\ status = "none"
        /\ pc \in {"ready", "done"}
        /\ Done => raised = (IF OutsideMatrixBeforeUnrecognised
                             THEN "IndexError" ELSE "ValueError")

\* the offending hypothesis stands last, after a recognised one
C5_Witness ==
    /\ Done /\ HasUnrecognised
    /\ NumHyps >= 2 /\ FirstUnrecognised = NumHyps - 1
    /\ raised = "ValueError" /\ ilp_calls = 0

-----------------------------------------------------------------------------
(* C6 *)

\* C6 as stated: Scenario B, [TERMINATE(1, -2), INITIALIZE(2, -2),
\* LINK(1 -> 2, -0.1)], returns the selection [2].
C6_Original ==
    (Done /\ hypotheses = ScenarioB(-20, -20, -1)) => results = <<2>>

\* C6 amended: Scenario B as given returns [] with one warning (the head of
\* tracklet 1 and the tail of tracklet 2 have no hypothesis); with
\* INITIALIZE(1) and TERMINATE(2) appended it returns the LINK and the two
\* appended hypotheses, not the TERMINATE/INITIALIZE pair.
C6_LinkPreferred ==
    /\ (Done /\ hypotheses = ScenarioB(-20, -20, -1)) =>
          (results = <<>> /\ raised = "none" /\ warnings = 1)
    /\ (Done /\ hypotheses = ScenarioBClosed(-20, -20, -1)) =>
          (results = <<2, 3, 4>> /\ raised = "none" /\ warnings = 0)

C6_Witness ==
    /\ Done /\ hypotheses = ScenarioBClosed(-20, -20, -1)
    /\ status = "optimal" /\ results = <<2, 3, 4>>

-----------------------------------------------------------------------------
(* C7 *)

\* C7: Scenario A, [INITIALIZE(1, 0), TERMINATE(1, 0)], returns [0, 1].
C7_ScenarioA == (Done /\ hypotheses = ScenarioA) => results = <<0, 1>>

C7_Witness ==
    /\ Done /\ hypotheses = ScenarioA
    /\ status = "optimal" /\ results = <<0, 1>>

-----------------------------------------------------------------------------
(* C8 *)

IsScenarioC ==
    /\ NumHyps = 4
    /\ \E a, c, d, e \in ScenarioLLs : hypotheses = ScenarioC(a, c, d, e)

IsScenarioCClosed ==
    /\ NumHyps = 7
    /\ \E a, c, d, e \in ScenarioLLs : hypotheses = ScenarioCClosed(a, c, d, e)

\* tracklet 1's tail, tracklet 2's head and tracklet 3's head
ScenarioCRowsCoveredOnce ==
    \A nT \in {TrackletCount} :
    \A pt \in {PatternTable(nT)} :
       /\ ResultCover(pt, TailRow(1)) = 1
       /\ ResultCover(pt, HeadRow(nT, 2)) = 1
       /\ ResultCover(pt, HeadRow(nT, 3)) = 1

\* C8 as stated: Scenario C, [TERMINATE(1), DIVIDE(1 -> 2, 3), INITIALIZE(2),
\* INITIALIZE(3)], returns a selection that contains the DIVIDE and covers
\* the three rows exactly once.
C8_Original ==
    (Done /\ IsScenarioC) => (1 \in ResultSet /\ ScenarioCRowsCoveredOnce)

\* C8 amended: Scenario C as given returns [] with one warning (the head of
\* tracklet 1 and the tails of tracklets 2 and 3 have no hypothesis); with
\* INITIALIZE(1), TERMINATE(2), TERMINATE(3) appended the three rows are
\* covered exactly once, and the DIVIDE is returned whenever its score
\* exceeds the sum of the scores of TERMINATE(1), INITIALIZE(2),
\* INITIALIZE(3), and is not returned when it is below that sum.
C8_Division ==
    /\ (Done /\ IsScenarioC) =>
          (results = <<>> /\ raised = "none" /\ warnings = 1)
    /\ (Done /\ IsScenarioCClosed) =>
          /\ raised = "none" /\ status = "optimal"
          /\ ScenarioCRowsCoveredOnce
          /\ (TotalLL({1}) > TotalLL({0, 2, 3})) => results = <<1, 4, 5, 6>>
          /\ (TotalLL({1}) < TotalLL({0, 2, 3})) => results = <<0, 2, 3, 4, 5, 6>>

C8_Witness ==
    /\ Done /\ IsScenarioCClosed
    /\ TotalLL({1}) > TotalLL({0, 2, 3})
    /\ results = <<1, 4, 5, 6>>

-----------------------------------------------------------------------------
(* C9 *)

BuilderAccepted == Done /\ raised = "none" /\ ilp_calls = 1

\* C9 as stated: every column of an accepted pool's matrix has exactly 2 or
\* 3 nonzero entries.
C9_Original ==
    BuilderAccepted => \A j \in Columns : Cardinality(ColumnOf(j)) \in {2, 3}

\* C9 amended: every column has 1, 2 or 3 nonzero entries: exactly 1 for
\* INITIALIZE, TERMINATE and APOPTOSIS, exactly 2 for FALSE_POSITIVE and
\* LINK, 3 for DIVIDE, or 2 when its children coincide, and 3 for a MERGE
\* with parents in 1..N, or 2 when they coincide; a MERGE with a parent
\* beyond N has between 1 and 3.
C9_ColumnCounts ==
    BuilderAccepted =>
        \A j \in Columns :
            LET h == HypAt(j)
                nnz == Cardinality(ColumnOf(j))
            IN CASE h.type \in {"INITIALIZE", "TERMINATE", "APOPTOSIS"} -> nnz = 1
                 [] h.type \in {"FALSE_POSITIVE", "LINK"} -> nnz = 2
                 [] h.type = "DIVIDE" ->
                        nnz = (IF h.child_one_ID = h.child_two_ID THEN 2 ELSE 3)
                 [] h.type = "MERGE" ->
                        IF h.parent_one_ID <= N /\ h.parent_two_ID <= N
                        THEN nnz = (IF h.parent_one_ID = h.parent_two_ID
                                    THEN 2 ELSE 3)
                        ELSE nnz \in {1, 2, 3}
                 [] OTHER -> FALSE

\* an accepted pool with a one-entry column and a two-entry DIVIDE column
C9_Witness ==
    /\ BuilderAccepted
    /\ \E j \in Columns : Cardinality(ColumnOf(j)) = 1
    /\ \E j \in Columns :
          HypAt(j).type = "DIVIDE" /\ Cardinality(ColumnOf(j)) = 2

-----------------------------------------------------------------------------
(* C10 *)

\* some tail or head row of some tracklet 1..N has no hypothesis
SomeRowUncovered(pt, nT) ==
    \E i \in 1..nT :
        \/ \A j \in Columns : TailRow(i) \notin pt[j]
        \/ \A j \in Columns : HeadRow(nT, i) \notin pt[j]

\* the matrix was allocated with that all-zero row and nothing was returned
AcceptedWithEmptyResult(nT) ==
    /\ raised = "none"
    /\ A.size = <<2 * nT, NumHyps>>
    /\ \E r \in 0..(A.size[1] - 1) : \A j \in Columns : <<r, j>> \notin A.nz
    /\ status # "optimal"
    /\ results = <<>>

\* C10 as stated: a pool of recognised hypotheses in which some tail or head
\* row of a tracklet in 1..N has no hypothesis is not rejected by the
\* builder, and optimise() returns [] without raising.
C10_Original ==
    (Done /\ NumHyps >= 1 /\ AllRecognised) =>
        \A nT \in {TrackletCount} :
        \A pt \in {PatternTable(nT)} :
            SomeRowUncovered(pt, nT) => AcceptedWithEmptyResult(nT)

\* C10 amended: the same when every row the pool names lies inside the
\* matrix; when a link or child reference lies beyond N (a tracklet that is
\* only ever referred to) or a merge parent beyond 2N, the builder raises
\* IndexError instead.
C10_UncoveredRowReturnsEmpty ==
    (Done /\ NumHyps >= 1 /\ AllRecognised) =>
        \A nT \in {TrackletCount} :
        \A pt \in {PatternTable(nT)} :
            SomeRowUncovered(pt, nT) =>
                IF AllRowsInMatrix(pt, nT)
                THEN AcceptedWithEmptyResult(nT)
                ELSE raised = "IndexError" /\ ilp_calls = 0 /\ results = <<>>

\* a gap in the ID space: no hypothesis has tracklet 1 as its subject
C10_Witness ==
    /\ Done /\ NumHyps >= 1 /\ AllRecognised
    /\ \A j \in Columns : HypAt(j).ID # 1
    /\ \E nT \in {TrackletCount} :
       \E pt \in {PatternTable(nT)} :
          /\ AllRowsInMatrix(pt, nT)
          /\ SomeRowUncovered(pt, nT)
          /\ AcceptedWithEmptyResult(nT)

=============================================================================
